---- MODULE Spec2Model ----
(***************************************************************************)
(* llm-cli (index.mjs): one invocation of the command-line client.         *)
(*                                                                         *)
(* The main action prepares the request, issues one fetch and either reads *)
(* the whole JSON answer (non-streaming) or hands the response body to     *)
(* OpenAIStream, whose ReadableStream start() feeds every network chunk    *)
(* through TextDecoder.decode and the eventsource parser into onParse.     *)
(* The main action consumes the stream and writes it to stdout.            *)
(*                                                                         *)
(* Text is modelled character by character: a byte string and a JS string  *)
(* are sequences of one-element strings.  An ASCII byte is written as its  *)
(* character; the two bytes of U+00E9 are "0xC3" and "0xA9".               *)
(***************************************************************************)
EXTENDS Integers, Sequences, FiniteSets, TLC

(***************************************************************************)
(* Bounds of the model.                                                    *)
(***************************************************************************)
\* longest SSE body, in events, of the event-aligned responses
MaxEvents == 3

(***************************************************************************)
(* Generic sequence helpers.                                               *)
(***************************************************************************)
IsPrefix(p, s) == Len(p) <= Len(s) /\ SubSeq(s, 1, Len(p)) = p

IsSuffix(p, s) == Len(p) <= Len(s) /\ SubSeq(s, Len(s) - Len(p) + 1, Len(s)) = p

Last(s) == s[Len(s)]

(***************************************************************************)
(* Characters and bytes.                                                   *)
(***************************************************************************)
LF == "\n"

\* the character U+00E9 and the replacement character U+FFFD of a JS string
EAcute == "U+00E9"

Replacement == "U+FFFD"

\* UTF-8 of U+00E9 and of U+FFFD
EAcuteBytes == <<"0xC3", "0xA9">>

ReplacementBytes == <<"0xEF", "0xBF", "0xBD">>

LeadBytes == {"0xC3", "0xEF"}

ContinuationBytes == {"0xA9", "0xBF", "0xBD"}

\* the characters the byte at position i of a byte sequence decodes to: the
\* first byte of a complete sequence gives its character, the bytes after it
\* give nothing, any other byte above 0x7F gives U+FFFD
DecodeAt(bytes, i) ==
  LET at(j) == IF j >= 1 /\ j <= Len(bytes) THEN bytes[j] ELSE "" IN
  IF <<at(i), at(i + 1)>> = EAcuteBytes THEN <<EAcute>>
  ELSE IF <<at(i - 1), at(i)>> = EAcuteBytes THEN << >>
  ELSE IF <<at(i), at(i + 1), at(i + 2)>> = ReplacementBytes THEN <<Replacement>>
  ELSE IF <<at(i - 1), at(i), at(i + 1)>> = ReplacementBytes THEN << >>
  ELSE IF <<at(i - 2), at(i - 1), at(i)>> = ReplacementBytes THEN << >>
  ELSE IF bytes[i] \in LeadBytes \cup ContinuationBytes THEN <<Replacement>>
  ELSE <<bytes[i]>>

RECURSIVE DecodeRange(_, _, _)
DecodeRange(bytes, lo, hi) ==
  IF lo > hi THEN << >>
  ELSE IF lo = hi THEN DecodeAt(bytes, lo)
  ELSE LET mid == (lo + hi) \div 2 IN
       DecodeRange(bytes, lo, mid) \o DecodeRange(bytes, mid + 1, hi)

\* decoder.decode(chunk), line 320: every call decodes its chunk alone, so the
\* bytes of a character cut by the chunk boundary become U+FFFD on both sides.
\* A chunk of ASCII bytes decodes to the same characters.
decode(chunk) ==
  IF \A i \in 1..Len(chunk) : chunk[i] \notin LeadBytes \cup ContinuationBytes
  THEN chunk
  ELSE DecodeRange(chunk, 1, Len(chunk))

EncodeChar(c) ==
  IF c = EAcute THEN EAcuteBytes
  ELSE IF c = Replacement THEN ReplacementBytes
  ELSE <<c>>

RECURSIVE EncodeRange(_, _, _)
EncodeRange(text, lo, hi) ==
  IF lo > hi THEN << >>
  ELSE IF lo = hi THEN EncodeChar(text[lo])
  ELSE LET mid == (lo + hi) \div 2 IN
       EncodeRange(text, lo, mid) \o EncodeRange(text, mid + 1, hi)

\* encoder.encode(text), line 308; ASCII text encodes to the same bytes
encode(text) ==
  IF \A i \in 1..Len(text) : text[i] \notin {EAcute, Replacement}
  THEN text
  ELSE EncodeRange(text, 1, Len(text))

(***************************************************************************)
(* The documents on the wire.                                              *)
(***************************************************************************)
DataField == <<"d","a","t","a",":"," ">>

Sentinel == <<"[","D","O","N","E","]">>

DeltaOpen == <<"{","\"","c","h","o","i","c","e","s","\"",":","[","{","\"","d","e","l","t","a","\"",":","{","\"","c","o","n","t","e","n","t","\"",":">>

MessageOpen == <<"{","\"","c","h","o","i","c","e","s","\"",":","[","{","\"","m","e","s","s","a","g","e","\"",":","{","\"","c","o","n","t","e","n","t","\"",":">>

ValueClose == <<"}","}","]","}">>

NoContentDoc == <<"{","\"","c","h","o","i","c","e","s","\"",":","[","{","\"","d","e","l","t","a","\"",":","{","}","}","]","}">>

NoDeltaDoc == <<"{","\"","c","h","o","i","c","e","s","\"",":","[","{","}","]","}">>

NoChoicesDoc == <<"{","}">>

MalformedDoc == <<"{","n","o","t"," ","v","a","l","i","d">>

ErrorDoc == <<"{","\"","e","r","r","o","r","\"",":","{","}","}">>

Quote == "\""

Backslash == "\\"

\* a JSON string literal whose value is the given text
RECURSIVE Escape(_)
Escape(text) ==
  IF text = << >> THEN << >>
  ELSE (IF Head(text) = LF THEN <<Backslash, "n">>
        ELSE IF Head(text) \in {Quote, Backslash} THEN <<Backslash, Head(text)>>
        ELSE <<Head(text)>>) \o Escape(Tail(text))

StringLiteral(text) == <<Quote>> \o Escape(text) \o <<Quote>>

\* the streaming document {"choices":[{"delta":{"content":<literal>}}]}
DeltaDoc(literal) == DeltaOpen \o literal \o ValueClose

\* the non-streaming document {"choices":[{"message":{"content":<literal>}}]}
MessageDoc(literal) == MessageOpen \o literal \o ValueClose

\* one SSE event on the wire: "data: <payload>" and the blank line
EventBytes(payload) == encode(DataField \o payload) \o <<LF, LF>>

(***************************************************************************)
(* JSON.parse, on the documents above.  A JSON object is a record, the     *)
(* empty object the empty function, an array a sequence, a string          *)
(* [t |-> "string", v |-> characters], a number [t |-> "number", v |-> n]. *)
(***************************************************************************)
EmptyObject == [k \in {} |-> TRUE]

JSONString(text) == [t |-> "string", v |-> text]

JSONNumber(n) == [t |-> "number", v |-> n]

Digits == <<"0","1","2","3","4","5","6","7","8","9">>

IsDigit(c) == \E d \in 1..10 : Digits[d] = c

DigitValue(c) == (CHOOSE d \in 1..10 : Digits[d] = c) - 1

\* the body of a string literal: no raw quote or line feed, every backslash
\* followed by n, a quote or a backslash
RECURSIVE IsStringBody(_, _)
IsStringBody(s, i) ==
  IF i > Len(s) THEN TRUE
  ELSE IF s[i] = Backslash
  THEN i + 1 <= Len(s) /\ s[i + 1] \in {"n", Quote, Backslash}
       /\ IsStringBody(s, i + 2)
  ELSE s[i] \notin {Quote, LF} /\ IsStringBody(s, i + 1)

RECURSIVE Unescape(_, _)
Unescape(s, i) ==
  IF i > Len(s) THEN << >>
  ELSE IF s[i] = Backslash
  THEN <<IF s[i + 1] = "n" THEN LF ELSE s[i + 1]>> \o Unescape(s, i + 2)
  ELSE <<s[i]>> \o Unescape(s, i + 1)

IsStringLiteral(s) ==
  /\ Len(s) >= 2
  /\ s[1] = Quote
  /\ Last(s) = Quote
  /\ IsStringBody(SubSeq(s, 2, Len(s) - 1), 1)

IsNumberLiteral(s) == Len(s) = 1 /\ IsDigit(s[1])

IsScalarLiteral(s) == IsStringLiteral(s) \/ IsNumberLiteral(s)

ScalarValue(s) ==
  IF IsNumberLiteral(s) THEN JSONNumber(DigitValue(s[1]))
  ELSE JSONString(Unescape(SubSeq(s, 2, Len(s) - 1), 1))

\* s is open ++ inner ++ ValueClose
Wraps(open, s) ==
  /\ Len(s) >= Len(open) + Len(ValueClose)
  /\ IsPrefix(open, s)
  /\ IsSuffix(ValueClose, s)

Inner(open, s) == SubSeq(s, Len(open) + 1, Len(s) - Len(ValueClose))

SyntaxError == [ok |-> FALSE, value |-> EmptyObject]

Parsed(v) == [ok |-> TRUE, value |-> v]

JSONParse(s) ==
  IF s = NoChoicesDoc THEN Parsed(EmptyObject)
  ELSE IF s = ErrorDoc THEN Parsed([error |-> EmptyObject])
  ELSE IF s = NoDeltaDoc THEN Parsed([choices |-> <<EmptyObject>>])
  ELSE IF s = NoContentDoc THEN Parsed([choices |-> <<[delta |-> EmptyObject]>>])
  ELSE IF Wraps(DeltaOpen, s) /\ IsScalarLiteral(Inner(DeltaOpen, s))
  THEN Parsed([choices |-> <<[delta |-> [content |-> ScalarValue(Inner(DeltaOpen, s))]]>>])
  ELSE IF Wraps(MessageOpen, s) /\ IsScalarLiteral(Inner(MessageOpen, s))
  THEN Parsed([choices |-> <<[message |-> [content |-> ScalarValue(Inner(MessageOpen, s))]]>>])
  ELSE SyntaxError

Has(obj, key) == key \in DOMAIN obj

(***************************************************************************)
(* The state of one invocation.                                            *)
(***************************************************************************)
VARIABLES
  args,        \* program.opts(): [stream, log, gpt4, model]; --code and
               \* --system are not given
  payload,     \* the request body, line 108; NoPayload before it is built
  pc,          \* where the main action stands
  exit,        \* "running", or the exit status of the process
  failure,     \* the error that ended the invocation, "none" so far
  prompt,      \* expandedPrompt, line 64
  apiKey,      \* the credential of the Authorization header, line 120
  fetches,     \* number of fetch calls issued
  res,         \* the HTTP response: [status, framing, body], or NoResponse
  wire,        \* bytes of the response body not yet read
  startPc,     \* where ReadableStream start() stands
  parser,      \* state of createParser(onParse): [buffer, data]
  counter,     \* line 275
  data,        \* line 276
  response,    \* line 277
  stream,      \* the ReadableStream: [state, closeRequested, queue]
  reader,      \* the for-await of line 129: [at, hand]
  calls,       \* arguments of every logger call, in order
  rows,        \* arguments of every log call (the rows inserted), in order
  stdout,      \* what was written to stdout, in order
  trail        \* one record for every event handed to onParse, in order

vars == <<args, payload, pc, exit, failure, prompt, apiKey, fetches, res, wire, startPc, parser, counter,
          data, response, stream, reader, calls, rows, stdout, trail>>

(***************************************************************************)
(* The ReadableStream the program constructs (line 284) and its default    *)
(* controller, as the platform defines them.  `w` is the part of the state *)
(* a synchronous run of parser.feed can change:                            *)
(*   [counter, data, response, stream, reader, calls, rows, trail, thrown, *)
(*    caught]                                                              *)
(* where thrown says that an exception is propagating out of onParse and   *)
(* caught that the catch of line 311 ran in the current call of onParse.   *)
(***************************************************************************)
CanCloseOrEnqueue(st) == st.state = "readable" /\ ~st.closeRequested

\* controller.enqueue(chunk): hands the chunk to a waiting read, else queues it;
\* throws once the stream is closing, closed or errored
ControllerEnqueue(w, chunk) ==
  IF ~CanCloseOrEnqueue(w.stream) THEN [w EXCEPT !.thrown = TRUE]
  ELSE IF w.reader.at = "pending"
  THEN [w EXCEPT !.reader = [at |-> "holding", hand |-> chunk]]
  ELSE [w EXCEPT !.stream.queue = Append(@, chunk)]

\* controller.close(): the stream closes at once when nothing is queued and
\* after the queue is drained otherwise; throws when called a second time or
\* on an errored stream
ControllerClose(w) ==
  IF ~CanCloseOrEnqueue(w.stream) THEN [w EXCEPT !.thrown = TRUE]
  ELSE IF w.stream.queue = << >>
  THEN [w EXCEPT !.stream.closeRequested = TRUE,
                 !.stream.state = "closed",
                 !.reader.at = IF @ = "pending" THEN "ended" ELSE @]
  ELSE [w EXCEPT !.stream.closeRequested = TRUE]

\* controller.error(e): errors a readable stream and drops its queue; does
\* nothing on a closed or errored stream
ControllerError(w) ==
  IF w.stream.state # "readable" THEN w
  ELSE [w EXCEPT !.stream.state = "errored",
                 !.stream.queue = << >>,
                 !.reader.at = IF @ = "pending" THEN "failed" ELSE @]

\* reader.read(), issued by the for-await of line 129
StreamRead(st, rd) ==
  IF st.queue # << >>
  THEN [stream |-> [st EXCEPT !.queue = Tail(@),
                              !.state = IF st.closeRequested /\ Len(st.queue) = 1
                                        THEN "closed" ELSE @],
        reader |-> [at |-> "holding", hand |-> Head(st.queue)]]
  ELSE [stream |-> st,
        reader |-> [rd EXCEPT !.at = CASE st.state = "closed" -> "ended"
                                       [] st.state = "errored" -> "failed"
                                       [] OTHER -> "pending"]]

(***************************************************************************)
(* The values the main action computes before the request.                 *)
(***************************************************************************)
\* lines 82-84: the default system text
system == "You are ChatGPT"

\* the value of an option that is not given
Absent == "undefined"

\* the name given with -m in the invocations that give one
GivenModel == "gpt-4o"

\* lines 48 and 66-68: the model name sent and logged; args.model is not read
model == IF args.gpt4 THEN "gpt-4" ELSE "gpt-3.5-turbo"

\* lines 99-100: the messages of the request
messages(expandedPrompt) ==
  <<[role |-> "system", content |-> system], [role |-> "user", content |-> expandedPrompt]>>

\* lines 108-116
Payload(expandedPrompt) ==
  [model |-> model, messages |-> messages(expandedPrompt), stream |-> args.stream]

NoPayload == [model |-> Absent, messages |-> << >>, stream |-> FALSE]

\* logger, lines 87-97
logger(w, resp, dat) ==
  [w EXCEPT !.calls = Append(@, [response |-> resp, data |-> dat]),
            !.rows = IF args.log
                     THEN Append(@, [prompt |-> prompt, model |-> model,
                                     system |-> system, response |-> resp,
                                     data |-> dat])
                     ELSE @]

(***************************************************************************)
(* onParse, lines 287-315.                                                 *)
(***************************************************************************)
\* the catch of lines 311-313
Catch(w) == ControllerError([w EXCEPT !.caught = TRUE])

\* json.choices[0] can be read (line 302 throws a TypeError otherwise)
HasChoice(json) == Has(json, "choices") /\ Len(json.choices) >= 1

\* json.choices[0].delta?.content || "", line 302
DeltaText(json) ==
  LET choice == json.choices[1] IN
  IF ~Has(choice, "delta") THEN JSONString(<< >>)
  ELSE IF ~Has(choice.delta, "content") THEN JSONString(<< >>)
  ELSE IF choice.delta.content = JSONNumber(0) THEN JSONString(<< >>)
  ELSE choice.delta.content

\* the characters `response += text` appends and encoder.encode(text) encodes
TextOf(v) == IF v.t = "number" THEN <<Digits[v.v + 1]>> ELSE v.v

\* (text.match(/\n/) || []).length, line 305, for a string
HasNewline(text) == \E i \in 1..Len(text) : text[i] = LF

\* Emit with the suppression applied to every fragment that has a newline
EmitSuppressingEveryNewline(w, text) ==
  IF w.counter < 2 /\ text.t # "string"
  THEN Catch(w)
  ELSE IF text.t = "string" /\ HasNewline(text.v)
  THEN w
  ELSE LET e == ControllerEnqueue(w, encode(TextOf(text))) IN
       IF e.thrown THEN Catch(w)
       ELSE [e EXCEPT !.counter = @ + 1]

\* Emit with the suppression applied to the first emitted fragment only
EmitSuppressingBeforeFirst(w, text) ==
  IF w.counter < 2 /\ text.t # "string"
  THEN Catch(w)
  ELSE IF w.counter < 1 /\ HasNewline(text.v)
  THEN w
  ELSE LET e == ControllerEnqueue(w, encode(TextOf(text))) IN
       IF e.thrown THEN Catch(w)
       ELSE [e EXCEPT !.counter = @ + 1]

\* Emit with the counter incremented for a suppressed fragment too
EmitCountingSuppressed(w, text) ==
  IF w.counter < 2 /\ text.t # "string"
  THEN Catch(w)
  ELSE IF w.counter < 2 /\ HasNewline(text.v)
  THEN [w EXCEPT !.counter = @ + 1]
  ELSE LET e == ControllerEnqueue(w, encode(TextOf(text))) IN
       IF e.thrown THEN Catch(w)
       ELSE [e EXCEPT !.counter = @ + 1]

\* lines 305-310, after response and data are updated
Emit(w, text) ==
  IF w.counter < 2 /\ text.t # "string"
  THEN Catch(w)                                 \* text.match is not a function
  ELSE IF w.counter < 2 /\ HasNewline(text.v)
  THEN w
  ELSE LET e == ControllerEnqueue(w, encode(TextOf(text))) IN
       IF e.thrown THEN Catch(w)                \* enqueue throws
       ELSE [e EXCEPT !.counter = @ + 1]

\* Delta with the response text assigned instead of appended to
DeltaKeepingLastText(w, eventData) ==
  LET parsed == JSONParse(eventData) IN
  IF ~parsed.ok \/ ~HasChoice(parsed.value) THEN Catch(w)
  ELSE LET text == DeltaText(parsed.value) IN
       Emit([w EXCEPT !.response = TextOf(text),
                      !.data = parsed.value], text)

\* Delta with the metadata object of the first delta event kept
DeltaKeepingFirstData(w, eventData) ==
  LET parsed == JSONParse(eventData) IN
  IF ~parsed.ok \/ ~HasChoice(parsed.value) THEN Catch(w)
  ELSE LET text == DeltaText(parsed.value) IN
       Emit([w EXCEPT !.response = @ \o TextOf(text),
                      !.data = IF @ = EmptyObject THEN parsed.value ELSE @], text)

\* Delta with the payload that failed appended to the response text
DeltaSalvaging(w, eventData) ==
  LET parsed == JSONParse(eventData) IN
  IF ~parsed.ok \/ ~HasChoice(parsed.value)
  THEN Catch([w EXCEPT !.response = @ \o eventData])
  ELSE LET text == DeltaText(parsed.value) IN
       Emit([w EXCEPT !.response = @ \o TextOf(text),
                      !.data = parsed.value], text)

\* lines 300-313
Delta(w, eventData) ==
  LET parsed == JSONParse(eventData) IN
  IF ~parsed.ok \/ ~HasChoice(parsed.value) THEN Catch(w)
  ELSE LET text == DeltaText(parsed.value) IN
       Emit([w EXCEPT !.response = @ \o TextOf(text),
                      !.data = parsed.value], text)

\* lines 291-299
Done(w) == ControllerClose(logger(w, w.response, w.data))

OnParseBody(w, eventData) ==
  IF eventData = Sentinel THEN Done(w) ELSE Delta(w, eventData)

\* what the trail keeps of one call of onParse: the state it left, the chunk
\* it put into the stream, if any, and how it ended
Snapshot(w, eventData, before) ==
  [payload |-> eventData,
   counter |-> w.counter, response |-> w.response, data |-> w.data,
   state |-> w.stream.state, closeRequested |-> w.stream.closeRequested,
   calls |-> Len(w.calls),
   enqueued |-> IF Len(w.stream.queue) > Len(before.stream.queue)
                THEN <<Last(w.stream.queue)>>
                ELSE IF before.reader.at = "pending" /\ w.reader.at = "holding"
                THEN <<w.reader.hand>>
                ELSE << >>,
   caught |-> w.caught,
   thrown |-> w.thrown]

onParse(w, eventData) ==
  LET after == OnParseBody([w EXCEPT !.caught = FALSE], eventData) IN
  [after EXCEPT !.trail = Append(@, Snapshot(after, eventData, w))]

(***************************************************************************)
(* createParser(onParse) and parser.feed, lines 318-320: the text is cut   *)
(* into lines, `data` lines are collected, and a blank line hands the      *)
(* collected data, without its last line feed, to onParse.                 *)
(***************************************************************************)
Colon == ":"

FieldLength(line) ==
  IF \E i \in 1..Len(line) : line[i] = Colon
  THEN (CHOOSE i \in 1..Len(line) :
          line[i] = Colon /\ \A j \in 1..(i - 1) : line[j] # Colon) - 1
  ELSE Len(line)

FieldName(line) == SubSeq(line, 1, FieldLength(line))

FieldValue(line) ==
  LET n == FieldLength(line) IN
  IF n >= Len(line) THEN << >>
  ELSE IF n + 2 <= Len(line) /\ line[n + 2] = " " THEN SubSeq(line, n + 3, Len(line))
  ELSE SubSeq(line, n + 2, Len(line))

NewParser == [buffer |-> << >>, data |-> << >>]

\* parseEventStreamLine: f is [parser, w]
EndOfLine(f) ==
  LET line == f.parser.buffer IN
  IF line = << >>
  THEN IF f.parser.data = << >> THEN f
       ELSE [parser |-> NewParser,
             w |-> onParse(f.w, SubSeq(f.parser.data, 1, Len(f.parser.data) - 1))]
  ELSE IF FieldName(line) = <<"d","a","t","a">>
  THEN [f EXCEPT !.parser.buffer = << >>,
                 !.parser.data = @ \o FieldValue(line) \o <<LF>>]
  ELSE [f EXCEPT !.parser.buffer = << >>]

\* the positions of the line feeds of a text, ascending
RECURSIVE Ascending(_)
Ascending(S) ==
  IF S = {} THEN << >>
  ELSE LET least == CHOOSE i \in S : \A j \in S : i <= j IN
       <<least>> \o Ascending(S \ {least})

LineFeeds(text) == Ascending({ i \in 1..Len(text) : text[i] = LF })

\* the k-th complete line of a text, without its line feed
Line(text, lfs, k) ==
  SubSeq(text, IF k = 1 THEN 1 ELSE lfs[k - 1] + 1, lfs[k] - 1)

\* what follows the last line feed
Rest(text, lfs) ==
  IF lfs = << >> THEN text ELSE SubSeq(text, Last(lfs) + 1, Len(text))

\* the complete lines from the k-th on are parsed until one of them makes
\* onParse throw
RECURSIVE FeedLines(_, _, _, _)
FeedLines(f, text, lfs, k) ==
  IF k > Len(lfs) \/ f.w.thrown THEN f
  ELSE FeedLines(EndOfLine([f EXCEPT !.parser.buffer = Line(text, lfs, k)]),
                 text, lfs, k + 1)

FeedText(f, all, lfs) ==
  [FeedLines(f, all, lfs, 1) EXCEPT !.parser.buffer = Rest(all, lfs)]

\* parser.feed(text): the text joins what was left of the text before it, its
\* complete lines are parsed and the rest is kept
feed(f, text) == FeedText(f, f.parser.buffer \o text, LineFeeds(f.parser.buffer \o text))

(***************************************************************************)
(* The responses of the server.                                            *)
(***************************************************************************)
\* the payloads of the event-aligned bodies
Payloads ==
  { DeltaDoc(StringLiteral(<<"a">>)),
    DeltaDoc(StringLiteral(<<LF>>)),
    NoContentDoc,
    MalformedDoc,
    Sentinel }

RECURSIVE BodiesOf(_)
BodiesOf(n) ==
  IF n = 0 THEN { << >> }
  ELSE BodiesOf(n - 1) \cup
       { b \o EventBytes(p) : b \in BodiesOf(n - 1), p \in Payloads }

\* a delta event whose content is the number 5
NumberEvent == EventBytes(DeltaDoc(<<"5">>))

TextEvent == EventBytes(DeltaDoc(StringLiteral(<<"a">>)))

\* every SSE body of at most MaxEvents events, bodies with a content that is
\* no string, a body with a delta event without delta and one with an event
\* without choices
EventBodies ==
  BodiesOf(MaxEvents)
  \cup { NumberEvent \o TextEvent \o EventBytes(Sentinel),
         TextEvent \o TextEvent \o NumberEvent \o EventBytes(Sentinel),
         TextEvent \o EventBytes(NoDeltaDoc) \o EventBytes(Sentinel),
         TextEvent \o EventBytes(NoChoicesDoc) \o EventBytes(Sentinel) }

EAcuteEvent == EventBytes(DeltaDoc(StringLiteral(<<EAcute>>)))

\* bodies delivered in arbitrary network chunks; the last one ends in an
\* event that lacks its blank line
WireBodies ==
  { EAcuteEvent \o EventBytes(Sentinel),
    EventBytes(Sentinel) \o EventBytes(Sentinel),
    TextEvent \o encode(DataField \o Sentinel) \o <<LF>> }

\* the body of an error answer
ErrorBody == ErrorDoc \o <<LF>>

\* the bodies of a non-streaming answer
JsonBodies ==
  { MessageDoc(StringLiteral(<<" ", "h", EAcute, LF>>)),
    MessageDoc(<<"5">>),
    NoChoicesDoc,
    MalformedDoc }

Answers ==
  IF args.stream
  THEN { [status |-> 200, framing |-> "events", body |-> b] : b \in EventBodies }
       \cup { [status |-> 200, framing |-> "bytes", body |-> b] : b \in WireBodies }
       \cup { [status |-> 401, framing |-> "bytes", body |-> ErrorBody] }
  ELSE { [status |-> 200, framing |-> "bytes", body |-> encode(b)] : b \in JsonBodies }
       \cup { [status |-> 401, framing |-> "bytes", body |-> ErrorBody] }

NoResponse == [status |-> 0, framing |-> "none", body |-> << >>]

\* the lengths the next network chunk can have
ChunkLengths ==
  IF res.framing = "events"
  THEN { n \in 2..Len(wire) : wire[n - 1] = LF /\ wire[n] = LF }
  ELSE 1..Len(wire)

(***************************************************************************)
(* Initial state: the process has started and the main action is about to  *)
(* run.                                                                    *)
(***************************************************************************)
NewStream == [state |-> "readable", closeRequested |-> FALSE, queue |-> << >>]

Init ==
  /\ args \in [stream : BOOLEAN, log : BOOLEAN, gpt4 : BOOLEAN,
               model : {Absent, GivenModel}]
  /\ payload = NoPayload
  /\ pc = "start"
  /\ exit = "running"
  /\ failure = "none"
  /\ prompt = << >>
  /\ apiKey = ""
  /\ fetches = 0
  /\ res = NoResponse
  /\ wire = << >>
  /\ startPc = "none"
  /\ parser = NewParser
  /\ counter = 0
  /\ data = EmptyObject
  /\ response = << >>
  /\ stream = NewStream
  /\ reader = [at |-> "none", hand |-> << >>]
  /\ calls = << >>
  /\ rows = << >>
  /\ stdout = << >>
  /\ trail = << >>

\* the state a synchronous run of the program works on
World ==
  [counter |-> counter, data |-> data, response |-> response, stream |-> stream,
   reader |-> reader, calls |-> calls, rows |-> rows, trail |-> trail,
   thrown |-> FALSE, caught |-> FALSE]

Becomes(w) ==
  /\ counter' = w.counter
  /\ data' = w.data
  /\ response' = w.response
  /\ stream' = w.stream
  /\ reader' = w.reader
  /\ calls' = w.calls
  /\ rows' = w.rows
  /\ trail' = w.trail

\* an exception leaves the async main action: the invocation is over
Rejected(why) == pc' = "rejected" /\ failure' = why

(***************************************************************************)
(* The main action, lines 46-153.                                          *)
(***************************************************************************)
\* a prompt is a sequence of words; FileRef is the reference {{f p.txt}} and
\* FileContent what p.txt holds
FileRef == "{{f p.txt}}"

FileContent == "hi"

HasFileRef(words) == \E i \in 1..Len(words) : words[i] = FileRef

\* parsePrompt, lines 255-269, when the referenced file exists
parsePrompt(words) ==
  [i \in 1..Len(words) |-> IF words[i] = FileRef THEN FileContent ELSE words[i]]

\* lines 46-64: the prompt is read and its file references are expanded
ExpandPrompt ==
  /\ exit = "running" /\ pc = "start"
  /\ \E given \in {<< >>, <<"hi">>, <<FileRef>>}, fileExists \in BOOLEAN :
       IF given = << >> THEN Rejected("NoPrompt") /\ prompt' = prompt
       ELSE IF HasFileRef(given) /\ ~fileExists
       THEN Rejected("FileNotFound") /\ prompt' = prompt
       ELSE /\ pc' = "expanded"
            /\ prompt' = parsePrompt(given)
            /\ failure' = failure
  /\ UNCHANGED <<args, payload, exit, apiKey, fetches, res, wire, startPc, parser, counter,
                 data, response, stream, reader, calls, rows, stdout, trail>>

\* getOpenaiApiKey, lines 195-209: found is the place the key comes from
getOpenaiApiKey(envKey, keyFile) ==
  IF envKey THEN [found |-> TRUE, key |-> "sk"]
  ELSE IF keyFile THEN [found |-> TRUE, key |-> "sk"]
  ELSE [found |-> FALSE, key |-> ""]

\* BuildRequest with a getOpenaiApiKey that reports the missing key and returns
BuildRequestWithoutExit ==
  /\ exit = "running" /\ pc = "expanded"
  /\ \E envKey \in BOOLEAN, keyFile \in BOOLEAN :
       LET k == getOpenaiApiKey(envKey, keyFile) IN
       /\ pc' = "ready" /\ apiKey' = k.key /\ exit' = exit
       /\ failure' = IF k.found THEN failure ELSE "NoCredential"
  /\ payload' = Payload(prompt)
  /\ UNCHANGED <<args, prompt, fetches, res, wire, startPc, parser, counter,
                 data, response, stream, reader, calls, rows, stdout, trail>>

\* lines 66-125: model, system text, payload and headers
BuildRequest ==
  /\ exit = "running" /\ pc = "expanded"
  /\ \E envKey \in BOOLEAN, keyFile \in BOOLEAN :
       LET k == getOpenaiApiKey(envKey, keyFile) IN
       IF k.found
       THEN pc' = "ready" /\ apiKey' = k.key /\ exit' = exit /\ failure' = failure
       ELSE pc' = pc /\ apiKey' = apiKey /\ exit' = "1" /\ failure' = "NoCredential"
  /\ payload' = Payload(prompt)
  /\ UNCHANGED <<args, prompt, fetches, res, wire, startPc, parser, counter,
                 data, response, stream, reader, calls, rows, stdout, trail>>

\* OpenAIStream, lines 271-325 (streaming), or lines 133-137: the one fetch,
\* whose body is JSON.stringify(payload).  The status of the answer is never
\* looked at.
Fetch ==
  /\ exit = "running" /\ pc = "ready"
  /\ fetches' = fetches + 1
  /\ \/ /\ Rejected("FetchFailed")
        /\ UNCHANGED <<res, wire, startPc, reader>>
     \/ \E a \in Answers :
          /\ res' = a
          /\ wire' = a.body
          /\ failure' = failure
          /\ IF args.stream
             THEN pc' = "consuming" /\ startPc' = "looping"
                  /\ reader' = [reader EXCEPT !.at = "idle"]
             ELSE pc' = "json" /\ startPc' = startPc /\ reader' = reader
  /\ UNCHANGED <<args, payload, exit, prompt, apiKey, parser, counter, data, response,
                 stream, calls, rows, stdout, trail>>

\* String.prototype.trim on a sequence of characters
IsSpace(c) == c \in {" ", LF}

RECURSIVE TrimStart(_)
TrimStart(s) == IF s # << >> /\ IsSpace(Head(s)) THEN TrimStart(Tail(s)) ELSE s

RECURSIVE TrimEnd(_)
TrimEnd(s) ==
  IF s # << >> /\ IsSpace(Last(s)) THEN TrimEnd(SubSeq(s, 1, Len(s) - 1)) ELSE s

trim(s) == TrimEnd(TrimStart(s))

\* data.choices[0].message.content.trim() can be evaluated, line 141
HasMessage(json) ==
  /\ HasChoice(json)
  /\ Has(json.choices[1], "message")
  /\ Has(json.choices[1].message, "content")
  /\ json.choices[1].message.content.t = "string"

\* lines 139-152: the non-streaming answer
ReadJson ==
  /\ exit = "running" /\ pc = "json"
  /\ LET parsed == JSONParse(decode(wire)) IN
     IF ~parsed.ok \/ ~HasMessage(parsed.value)
     THEN /\ Rejected("BadAnswer")
          /\ UNCHANGED <<calls, rows, stdout>>
     ELSE LET text == trim(parsed.value.choices[1].message.content.v)
              w == logger(World, text, parsed.value)
          IN /\ calls' = w.calls
             /\ rows' = w.rows
             /\ stdout' = Append(stdout, encode(text \o <<LF>>))
             /\ pc' = "done"
             /\ failure' = failure
  /\ wire' = << >>
  /\ UNCHANGED <<args, payload, exit, prompt, apiKey, fetches, res, startPc, parser, counter,
                 data, response, stream, reader, trail>>

(***************************************************************************)
(* ReadableStream start(), lines 285-322.                                  *)
(***************************************************************************)
\* one round of the loop of line 319: the next chunk of the body is decoded
\* and fed; every event completed by it is handled before anything else runs
FeedChunk ==
  /\ exit = "running" /\ startPc = "looping" /\ wire # << >>
  /\ \E n \in ChunkLengths :
       \E f \in { feed([parser |-> parser, w |-> World], decode(SubSeq(wire, 1, n))) } :
       /\ wire' = SubSeq(wire, n + 1, Len(wire))
       /\ parser' = f.parser
       /\ Becomes(f.w)
       /\ startPc' = IF f.w.thrown THEN "threw" ELSE startPc
  /\ UNCHANGED <<args, payload, pc, exit, failure, prompt, apiKey, fetches, res, stdout>>

\* the body has ended: the loop of line 319 is left and start() returns
BodyEnd ==
  /\ exit = "running" /\ startPc = "looping" /\ wire = << >>
  /\ startPc' = "returned"
  /\ UNCHANGED <<args, payload, pc, exit, failure, prompt, apiKey, fetches, res, wire, parser,
                 counter, data, response, stream, reader, calls, rows, stdout, trail>>

\* an exception left onParse and so start(): the stream errors itself with it
StartRejected ==
  /\ exit = "running" /\ startPc = "threw"
  /\ startPc' = "rejected"
  /\ Becomes(ControllerError(World))
  /\ UNCHANGED <<args, payload, pc, exit, failure, prompt, apiKey, fetches, res, wire, parser,
                 stdout>>

(***************************************************************************)
(* The consumer, lines 128-131.                                            *)
(***************************************************************************)
\* the chunk in hand, if any, is written and the next read is issued
ConsumerRead ==
  /\ exit = "running" /\ pc = "consuming" /\ reader.at \in {"idle", "holding"}
  /\ stdout' = IF reader.at = "holding" THEN Append(stdout, reader.hand) ELSE stdout
  /\ LET r == StreamRead(stream, [at |-> "idle", hand |-> << >>]) IN
     stream' = r.stream /\ reader' = r.reader
  /\ UNCHANGED <<args, payload, pc, exit, failure, prompt, apiKey, fetches, res, wire, startPc,
                 parser, counter, data, response, calls, rows, trail>>

\* the stream has ended: the loop is left and the main action returns
ConsumerEnd ==
  /\ exit = "running" /\ pc = "consuming" /\ reader.at = "ended"
  /\ pc' = "done"
  /\ UNCHANGED <<args, payload, exit, failure, prompt, apiKey, fetches, res, wire, startPc,
                 parser, counter, data, response, stream, reader, calls, rows, stdout,
                 trail>>

\* the stream has errored: the read rejects and the main action throws
ConsumerFail ==
  /\ exit = "running" /\ pc = "consuming" /\ reader.at = "failed"
  /\ Rejected("StreamError")
  /\ UNCHANGED <<args, payload, exit, prompt, apiKey, fetches, res, wire, startPc, parser,
                 counter, data, response, stream, reader, calls, rows, stdout, trail>>

(***************************************************************************)
(* The end of the process.                                                 *)
(***************************************************************************)
\* the rejection of the main action is not handled (program.parse, line 184)
UnhandledRejection ==
  /\ exit = "running" /\ pc = "rejected"
  /\ exit' = "1"
  /\ UNCHANGED <<args, payload, pc, failure, prompt, apiKey, fetches, res, wire, startPc,
                 parser, counter, data, response, stream, reader, calls, rows, stdout,
                 trail>>

\* nothing is left to run: the main action has returned or waits for a read
\* that nothing will answer, and the body is no longer read
Idle ==
  /\ pc = "done" \/ (pc = "consuming" /\ reader.at = "pending")
  /\ startPc \in {"none", "returned", "rejected"}

EventLoopDrained ==
  /\ exit = "running" /\ Idle
  /\ exit' = "0"
  /\ UNCHANGED <<args, payload, pc, failure, prompt, apiKey, fetches, res, wire, startPc,
                 parser, counter, data, response, stream, reader, calls, rows, stdout,
                 trail>>

Next ==
  \/ ExpandPrompt
  \/ BuildRequest
  \/ Fetch
  \/ ReadJson
  \/ FeedChunk
  \/ BodyEnd
  \/ StartRejected
  \/ ConsumerRead
  \/ ConsumerEnd
  \/ ConsumerFail
  \/ UnhandledRejection
  \/ EventLoopDrained

Spec == Init /\ [][Next]_vars

\* what FeedChunk does to the body: a round of the loop of line 319 takes the
\* next chunk
Receive ==
  /\ exit = "running" /\ startPc = "looping" /\ wire # << >>
  /\ \E n \in ChunkLengths : wire' = SubSeq(wire, n + 1, Len(wire))

\* what ReadJson does to the main action: res.json() settles and the action
\* returns or throws
Answer ==
  /\ exit = "running" /\ pc = "json"
  /\ pc' \in {"done", "rejected"}

\* every step but FeedChunk and ReadJson
Run ==
  \/ ExpandPrompt
  \/ BuildRequest
  \/ Fetch
  \/ BodyEnd
  \/ StartRejected
  \/ ConsumerRead
  \/ ConsumerEnd
  \/ ConsumerFail
  \/ UnhandledRejection
  \/ EventLoopDrained

\* the runtime runs whatever can run: a finite body is received to its end,
\* a received answer is read, and any other step that stays possible is taken
FairSpec == Spec /\ WF_wire(Receive) /\ WF_pc(Answer) /\ WF_vars(Run)

(***************************************************************************)
(* Vocabulary of the properties.  trail[i] is the state onParse left after *)
(* the i-th event it was handed.                                           *)
(***************************************************************************)
InitialSnapshot ==
  [counter |-> 0, response |-> << >>, data |-> EmptyObject, state |-> "readable",
   closeRequested |-> FALSE, calls |-> 0]

\* the state the i-th event found
Before(i) == IF i = 1 THEN InitialSnapshot ELSE trail[i - 1]

IsSentinel(i) == trail[i].payload = Sentinel

\* the i-th event is a delta event that parses: lines 301-302 complete
IsFragment(i) ==
  /\ ~IsSentinel(i)
  /\ JSONParse(trail[i].payload).ok
  /\ HasChoice(JSONParse(trail[i].payload).value)

\* the i-th event is a parsed delta event whose fragment is text: its content
\* is a string or is absent
IsTextFragment(i) ==
  IsFragment(i) /\ DeltaText(JSONParse(trail[i].payload).value).t = "string"

\* the i-th event is not the sentinel and is not valid JSON
IsMalformed(i) == ~IsSentinel(i) /\ ~JSONParse(trail[i].payload).ok

\* the text fragment of a delta event that parses
FragmentOf(i) == TextOf(DeltaText(JSONParse(trail[i].payload).value))

\* the number of parsed delta events before the i-th event
ArrivalIndex(i) == Cardinality({ j \in 1..(i - 1) : IsFragment(j) })

\* the i-th event put a fragment into the output sequence
Emitted(i) == trail[i].enqueued # << >>

\* the i-th event is a parsed delta event that returned at line 306: nothing
\* was put into the output sequence and nothing was thrown
Suppressed(i) == IsFragment(i) /\ ~Emitted(i) /\ ~trail[i].caught

\* the number of events up to the i-th that put a fragment into the output
\* sequence
EmittedCount(i) == Cardinality({ j \in 1..i : Emitted(j) })

\* the fragments of the parsed delta events before the i-th event, joined
RECURSIVE TextBefore(_)
TextBefore(i) ==
  IF i <= 1 THEN << >>
  ELSE TextBefore(i - 1) \o (IF IsFragment(i - 1) THEN FragmentOf(i - 1) ELSE << >>)

\* end-of-sequence has been signalled and no error has
ClosedIn(s) == s.state = "closed" \/ (s.state = "readable" /\ s.closeRequested)

\* neither end-of-sequence nor an error has been signalled
OpenIn(s) == s.state = "readable" /\ ~s.closeRequested

SentinelSeen == \E i \in 1..Len(trail) : IsSentinel(i)

(***************************************************************************)
(* C1.  Whenever the events handed to onParse contain the sentinel, the    *)
(* logger has been called exactly once, whatever followed the first        *)
(* sentinel.                                                               *)
(***************************************************************************)
C1_LoggerCalledOnce == SentinelSeen => Len(calls) = 1

(***************************************************************************)
(* C2.  From the event on that is the sentinel, the output sequence is     *)
(* closed after every event, and no later event puts a fragment into it.   *)
(***************************************************************************)
C2_ClosedAndSilentAfterSentinel ==
  \A i \in 1..Len(trail) :
    IsSentinel(i) =>
      /\ ClosedIn(stream)
      /\ \A j \in i..Len(trail) : ClosedIn(trail[j]) /\ (j > i => ~Emitted(j))

(***************************************************************************)
(* C3.  When an event that is not valid JSON is handled before any         *)
(* sentinel, the output sequence is errored and the logger is never        *)
(* called, also when a sentinel follows.                                   *)
(***************************************************************************)
C3_ParseFailureNeverLogs ==
  \A i \in 1..Len(trail) :
    (IsMalformed(i) /\ \A j \in 1..(i - 1) : ~IsSentinel(j)) =>
      /\ trail[i].state = "errored"
      /\ stream.state = "errored"
      /\ calls = << >>

(***************************************************************************)
(* C4.  When the whole body has been fed, in whatever chunks, onParse has  *)
(* been handed the events it is handed when the body is fed in one piece:  *)
(* as many, in the same order, with the same payloads.                     *)
(***************************************************************************)
PayloadsOf(t) == [i \in 1..Len(t) |-> t[i].payload]

NewWorld ==
  [counter |-> 0, data |-> EmptyObject, response |-> << >>, stream |-> NewStream,
   reader |-> [at |-> "pending", hand |-> << >>], calls |-> << >>, rows |-> << >>,
   trail |-> << >>, thrown |-> FALSE, caught |-> FALSE]

Unfragmented(body) == feed([parser |-> NewParser, w |-> NewWorld], decode(body)).w.trail

C4_ChunkingKeepsEvents ==
  startPc = "returned" => PayloadsOf(trail) = PayloadsOf(Unfragmented(res.body))

(***************************************************************************)
(* C5.  The response text of the logger call made for a sentinel is the    *)
(* concatenation, in arrival order, of the fragments of all parsed delta   *)
(* events before that sentinel, suppressed ones included.                  *)
(***************************************************************************)
C5_LoggedTextIsConcatenation ==
  \A i \in 1..Len(trail) :
    IsSentinel(i) => calls[trail[i].calls].response = TextBefore(i)

C5_Witness ==
  \E i \in 1..Len(trail) :
    /\ IsSentinel(i)
    /\ calls[trail[i].calls].response = <<LF, "a">>
    /\ \E j \in 1..(i - 1) : IsFragment(j) /\ ~Emitted(j)

(***************************************************************************)
(* C6.  As claimed: every fragment with arrival index 2 or more, arriving  *)
(* while the output sequence is open, is put into the output sequence.     *)
(***************************************************************************)
C6_EmittedFromIndexTwo ==
  \A i \in 1..Len(trail) :
    (IsTextFragment(i) /\ ArrivalIndex(i) >= 2 /\ OpenIn(Before(i))) => Emitted(i)

(***************************************************************************)
(* C6, amended.  Every fragment that arrives while the output sequence is  *)
(* open and after two fragments have been emitted is put into the output   *)
(* sequence, with or without a newline.                                    *)
(***************************************************************************)
C6_EmittedAfterTwoEmitted ==
  \A i \in 1..Len(trail) :
    (IsTextFragment(i) /\ Before(i).counter >= 2 /\ OpenIn(Before(i))) =>
      /\ Emitted(i)
      /\ trail[i].enqueued = <<encode(FragmentOf(i))>>
      /\ trail[i].counter = Before(i).counter + 1

C6_Witness ==
  \E i \in 1..Len(trail) :
    /\ IsTextFragment(i)
    /\ Before(i).counter >= 2
    /\ HasNewline(FragmentOf(i))
    /\ Emitted(i)

(***************************************************************************)
(* C7.  A fragment with arrival index 0 or 1 that contains a newline is    *)
(* not put into the output sequence and is appended to the response text.  *)
(***************************************************************************)
C7_LeadingNewlinesSuppressed ==
  \A i \in 1..Len(trail) :
    (IsTextFragment(i) /\ ArrivalIndex(i) <= 1 /\ HasNewline(FragmentOf(i))) =>
      /\ ~Emitted(i)
      /\ trail[i].response = Before(i).response \o FragmentOf(i)

C7_Witness ==
  \E i \in 1..Len(trail) :
    /\ IsTextFragment(i)
    /\ ArrivalIndex(i) = 1
    /\ Before(i).counter = 1
    /\ HasNewline(FragmentOf(i))
    /\ ~Emitted(i)
    /\ trail[i].response = <<"a", LF>>

(***************************************************************************)
(* C8.  Once the response is fully received - the non-streaming answer is  *)
(* printed, or the streamed body has been read to its end, held a sentinel *)
(* and no event that failed - the logger has been called exactly once,     *)
(* with the final response text and metadata object.                       *)
(***************************************************************************)
NoEventFailed == \A i \in 1..Len(trail) : IsSentinel(i) \/ IsFragment(i)

FullyReceived ==
  IF args.stream
  THEN startPc \in {"returned", "rejected"} /\ SentinelSeen /\ NoEventFailed
  ELSE pc = "done"

C8_LoggedExactlyOnce ==
  FullyReceived =>
    /\ Len(calls) = 1
    /\ args.stream => calls[1] = [response |-> response, data |-> data]
    /\ args.log => rows = <<[prompt |-> prompt, model |-> model, system |-> system,
                             response |-> calls[1].response, data |-> calls[1].data]>>

(***************************************************************************)
(* C9.  An invocation whose request failed or was answered with a          *)
(* non-success status ends with an error, has handled no event, written    *)
(* nothing, logged nothing and issued one request.                         *)
(***************************************************************************)
RequestFailed == failure = "FetchFailed" \/ res.status \notin {0, 200}

C9_FailedRequestAborts ==
  (RequestFailed /\ exit # "running") =>
    /\ exit = "1"
    /\ trail = << >>
    /\ stdout = << >>
    /\ calls = << >>
    /\ fetches = 1

(***************************************************************************)
(* C10.  After a missing credential or a missing file no request is ever   *)
(* issued.                                                                 *)
(***************************************************************************)
C10_NoFetchAfterMissingInput ==
  failure \in {"NoCredential", "FileNotFound"} => fetches = 0 /\ res = NoResponse

C10_Witness == failure = "NoCredential" /\ exit = "1" /\ prompt = <<"hi">>

(***************************************************************************)
(* C11.  Once a request has been sent in an invocation that gives a model  *)
(* name with -m, the model field of the payload sent is that name.         *)
(***************************************************************************)
C11_PayloadModelIsGiven ==
  (fetches >= 1 /\ args.model # Absent) => payload.model = args.model

(***************************************************************************)
(* C12.  The counter is the number of fragments put into the output        *)
(* sequence so far and no event decreases it; a fragment is suppressed     *)
(* exactly when the counter is below 2 and the fragment contains a         *)
(* newline, suppression leaves the counter as it is, and no fragment is    *)
(* suppressed once the counter has reached 2.                              *)
(***************************************************************************)
C12_CounterCountsEmitted ==
  /\ counter = EmittedCount(Len(trail))
  /\ \A i \in 1..Len(trail) :
       /\ trail[i].counter = EmittedCount(i)
       /\ trail[i].counter >= Before(i).counter
       /\ IsFragment(i) =>
            (Suppressed(i) <=> (Before(i).counter < 2 /\ HasNewline(FragmentOf(i))))
       /\ Suppressed(i) => trail[i].counter = Before(i).counter
       /\ Before(i).counter >= 2 => ~Suppressed(i)

C12_Witness ==
  /\ counter = 2
  /\ \E i \in 1..Len(trail) :
       /\ Suppressed(i)
       /\ Before(i).counter = 1
       /\ \E j \in (i + 1)..Len(trail) : Emitted(j) /\ trail[j].counter = 2

(***************************************************************************)
(* C13.  The output sequence starts STREAMING; an event takes it to DONE   *)
(* only if it is the sentinel and to ERRORED only if it is an event that   *)
(* fails; once it is DONE or ERRORED, no later event and no later step     *)
(* gives it another outcome.                                               *)
(***************************************************************************)
\* the outcome signalled to the consumer of a stream
Outcome(s) ==
  IF s.state = "errored" THEN "ERRORED"
  ELSE IF s.closeRequested THEN "DONE"
  ELSE "STREAMING"

\* the i-th event is a delta event that lines 301-305 throw on
Fails(i) == ~IsSentinel(i) /\ ~IsTextFragment(i)

C13_SingleTerminalOutcome ==
  /\ \A i \in 1..Len(trail) :
       LET before == Outcome(Before(i))
           after == Outcome(trail[i])
       IN /\ before # "STREAMING" => after = before
          /\ (before = "STREAMING" /\ after = "DONE") => IsSentinel(i)
          /\ (before = "STREAMING" /\ after = "ERRORED") => Fails(i)
  /\ Outcome(stream) = IF trail = << >> THEN "STREAMING" ELSE Outcome(Last(trail))

(***************************************************************************)
(* C14.  In streaming mode, once the response is there and the consumer    *)
(* loop runs, the output sequence eventually is closed or errored and the  *)
(* consumer loop is left, whatever the body holds.                         *)
(***************************************************************************)
StreamTerminal == stream.state \in {"closed", "errored"}

C14_StreamTerminates == (pc = "consuming") ~> (StreamTerminal /\ pc # "consuming")

(***************************************************************************)
(* C15.  An event handled after the output sequence has become DONE or     *)
(* ERRORED leaves the response text, the metadata object and the counter   *)
(* as they were.                                                           *)
(***************************************************************************)
\* response, data and counter of a snapshot
Accumulated(s) == <<s.response, s.data, s.counter>>

C15_NothingAfterTerminal ==
  \A i \in 1..Len(trail) :
    Outcome(Before(i)) # "STREAMING" => Accumulated(trail[i]) = Accumulated(Before(i))

(***************************************************************************)
(* C16.  An event handled while the output sequence is STREAMING whose     *)
(* payload does not parse - it is not JSON, or it is JSON without a first  *)
(* choice - errors the output sequence, leaves the response text, the      *)
(* metadata object and the counter as they were and puts no fragment into  *)
(* the output sequence.                                                    *)
(***************************************************************************)
\* lines 301-302 throw on the i-th event
Unparsed(i) == ~IsSentinel(i) /\ ~IsFragment(i)

C16_FailedEventChangesOutcomeOnly ==
  \A i \in 1..Len(trail) :
    (Unparsed(i) /\ Outcome(Before(i)) = "STREAMING") =>
      /\ Accumulated(trail[i]) = Accumulated(Before(i))
      /\ ~Emitted(i)
      /\ Outcome(trail[i]) = "ERRORED"

C16_Witness ==
  \E i \in 1..Len(trail) :
    /\ IsMalformed(i) /\ Outcome(Before(i)) = "STREAMING"
    /\ Accumulated(Before(i)) = <<(<<"a">>), JSONParse(DeltaDoc(StringLiteral(<<"a">>))).value, 1>>
    /\ trail[i].state = "errored"

(***************************************************************************)
(* C17.  A delta event that parses and carries no text - its first choice  *)
(* has no delta, or the delta no content - never takes the output sequence *)
(* to the error state, leaves the response text as it was and makes its    *)
(* payload the metadata object.                                            *)
(***************************************************************************)
\* json.choices[0].delta?.content is undefined for the i-th event
NoText(i) ==
  /\ IsFragment(i)
  /\ LET choice == JSONParse(trail[i].payload).value.choices[1] IN
     ~Has(choice, "delta") \/ ~Has(choice.delta, "content")

C17_NoTextNeverErrors ==
  \A i \in 1..Len(trail) :
    NoText(i) =>
      /\ Before(i).state # "errored" => trail[i].state # "errored"
      /\ trail[i].response = Before(i).response
      /\ trail[i].data = JSONParse(trail[i].payload).value

(***************************************************************************)
(* C18.  The metadata object of the logger call made for a sentinel is the *)
(* parsed payload of the last delta event that parsed before that          *)
(* sentinel, and the empty object when no delta event parsed before it.    *)
(***************************************************************************)
\* the parsed delta events before the i-th event
FragmentsBefore(i) == { j \in 1..(i - 1) : IsFragment(j) }

\* the metadata object lines 303-304 have left when the i-th event arrives
LastData(i) ==
  IF FragmentsBefore(i) = {} THEN EmptyObject
  ELSE LET last == CHOOSE j \in FragmentsBefore(i) : \A k \in FragmentsBefore(i) : k <= j
       IN JSONParse(trail[last].payload).value

C18_LoggedDataIsLastPayload ==
  \A i \in 1..Len(trail) :
    IsSentinel(i) => calls[trail[i].calls].data = LastData(i)

C18_Witness ==
  \E i \in 1..Len(trail) :
    /\ IsSentinel(i)
    /\ \E j \in FragmentsBefore(i), k \in FragmentsBefore(i) :
         /\ j < k
         /\ trail[j].payload # trail[k].payload
         /\ calls[trail[i].calls].data = JSONParse(trail[k].payload).value

(***************************************************************************)
(* C19.  For a body whose fragments are text: after every event the chunks *)
(* put into the output sequence are, in arrival order, the encoded         *)
(* fragments of the parsed delta events that were not suppressed; and the  *)
(* response text of a logger call made for a sentinel before which no      *)
(* fragment was suppressed is the concatenation of those chunks.           *)
(***************************************************************************)
\* the chunks the first n events put into the output sequence
RECURSIVE EmittedOutput(_)
EmittedOutput(n) == IF n = 0 THEN << >> ELSE EmittedOutput(n - 1) \o trail[n].enqueued

\* the encoded fragments of the parsed delta events among the first n that
\* were not suppressed
RECURSIVE Unsuppressed(_)
Unsuppressed(n) ==
  IF n = 0 THEN << >>
  ELSE Unsuppressed(n - 1) \o
       (IF IsFragment(n) /\ ~Suppressed(n) THEN <<encode(FragmentOf(n))>> ELSE << >>)

RECURSIVE Concatenation(_)
Concatenation(chunks) ==
  IF chunks = << >> THEN << >> ELSE Head(chunks) \o Concatenation(Tail(chunks))

AllText == \A i \in 1..Len(trail) : IsFragment(i) => IsTextFragment(i)

C19_EmittedIsParsedUnsuppressed ==
  AllText =>
    \A i \in 1..Len(trail) :
      /\ EmittedOutput(i) = Unsuppressed(i)
      /\ (IsSentinel(i) /\ \A j \in 1..(i - 1) : ~Suppressed(j)) =>
           Concatenation(EmittedOutput(i)) = encode(calls[trail[i].calls].response)

====
